---- MODULE Spec2Model ----
(***************************************************************************)
(* The Slaughterhouse registry of src/src/slaughterhouse.rs (the same code *)
(* is repeated in src/src/main.rs): locations -> units -> halls of hooks.  *)
(* The two HashMaps enumerate their keys in an unspecified order; the      *)
(* model keeps that order as state (locOrder, unitOrder) and lets an       *)
(* insertion of a new key pick any order.                                  *)
(***************************************************************************)
EXTENDS Integers, Sequences, FiniteSets, TLC

\* ---- bounds of the model ------------------------------------------------
MaxCapacity == 2
MaxIndex == 2
MaxSlots == 2

\* ---- inputs the caller draws from ---------------------------------------
LocationNames == {"Farm", "Field"}
UnitNames == {"Barn", "Shed"}
Capacities == 0..MaxCapacity
Indices == 0..MaxIndex

\* struct Cow { name } with race() = "Cow"
Cow(name) == [race |-> "Cow", name |-> name]

\* Cow::new(): Cow { name: "Bessie" }
Cow_new == Cow("Bessie")
Animals == {Cow_new, Cow("Daisy")}

\* Option<T>: None is the empty sequence, Some(x) the one-element sequence.
None == << >>
Some(x) == << x >>

VARIABLES locations, locOrder, unitOrder, last
vars == << locations, locOrder, unitOrder, last >>

\* ---- helpers ------------------------------------------------------------
Perms(S) == { s \in [1..Cardinality(S) -> S] : \A x \in S : \E i \in 1..Cardinality(S) : s[i] = x }

\* The first Some of a sequence of Options (Iterator::find_map), else None.
RECURSIVE FirstSome(_)
FirstSome(opts) ==
    IF opts = << >> THEN None
    ELSE IF Head(opts) # None THEN Head(opts)
    ELSE FirstSome(Tail(opts))

\* The concatenation of a sequence of sequences (Iterator::flat_map).
RECURSIVE Flatten(_)
Flatten(seqs) ==
    IF seqs = << >> THEN << >>
    ELSE Head(seqs) \o Flatten(Tail(seqs))

\* ---- the data ------------------------------------------------------------
\* Slip: Vec::with_capacity(capacity) reserves memory but holds no hook.
Hall_new_with_capacity(capacity) == [hooks |-> << >>]

\* Hall::new(capacity): vec![None; capacity]
Hall_new(capacity) == [hooks |-> [k \in 1..capacity |-> None]]

\* Unit::new(): the empty map of units
Unit_new == [u \in {} |-> Hall_new(0)]

\* Locations::new(): the empty map of locations
Locations_new == [l \in {} |-> Unit_new]

\* HashMap::insert(key, value) on the entries of a map
insert(map, key, value) ==
    [k \in DOMAIN map \cup {key} |-> IF k = key THEN value ELSE map[k]]

\* The enumeration orders a map can have after insert(key): a key already
\* present keeps its bucket, a new key may land anywhere (and may rehash).
InsertOrders(order, keys, key) ==
    IF key \in keys THEN {order} ELSE Perms(keys \cup {key})

\* Box<dyn Animal>::clone -> clone_box -> Box::new(self.clone()): a new value
\* with the fields of the old one.
clone_box(animal) == [race |-> animal.race, name |-> animal.name]

\* Option<&Hook>::cloned on an Option<Hook>
cloned(hook) == IF hook = None THEN None ELSE Some(clone_box(hook[1]))

\* ---- the operations -------------------------------------------------------
\* Slip: entry(name).or_insert(Unit::new()) keeps a location that exists.
add_location_or_insert(locs, name) ==
    IF name \in DOMAIN locs THEN locs ELSE insert(locs, name, Unit_new)

add_location(locs, name) == insert(locs, name, Unit_new)

add_unit(locs, location, name, capacity) ==
    IF location \notin DOMAIN locs
    THEN [kind |-> "Err", err |-> "Location not found", locs |-> locs]
    ELSE [kind |-> "Ok", err |-> "",
          locs |-> [locs EXCEPT ![location] = insert(@, name, Hall_new(capacity))]]

\* Slip: the innermost any() written as all().
has_free_hook_all(locs, lo, uo) ==
    \E i \in 1..Len(lo) :
        \E j \in 1..Len(uo[lo[i]]) :
            LET hall == locs[lo[i]][uo[lo[i]][j]]
            IN  \A k \in 1..Len(hall.hooks) : hall.hooks[k] = None

has_free_hook(locs, lo, uo) ==
    \E i \in 1..Len(lo) :
        \E j \in 1..Len(uo[lo[i]]) :
            LET hall == locs[lo[i]][uo[lo[i]][j]]
            IN  \E k \in 1..Len(hall.hooks) : hall.hooks[k] = None

\* Slip: rposition() finds the last empty hook instead of the first.
position_rposition(hooks) ==
    IF \E k \in 1..Len(hooks) : hooks[k] = None
    THEN Some((CHOOSE k \in 1..Len(hooks) :
                  /\ hooks[k] = None
                  /\ \A m \in (k + 1)..Len(hooks) : hooks[m] # None) - 1)
    ELSE None

\* hooks.iter().position(|hook| hook.is_none())
position(hooks) ==
    IF \E k \in 1..Len(hooks) : hooks[k] = None
    THEN Some((CHOOSE k \in 1..Len(hooks) :
                  /\ hooks[k] = None
                  /\ \A m \in 1..(k - 1) : hooks[m] # None) - 1)
    ELSE None

\* Slip: only the first location of the enumeration is searched (next()
\* in place of find_map over the locations).
next_free_hook_index_first_location(locs, lo, uo) ==
    LET inUnit(l) == FirstSome([j \in 1..Len(uo[l]) |-> position(locs[l][uo[l][j]].hooks)])
        index == IF lo = << >> THEN None ELSE inUnit(lo[1])
    IN  IF index = None
        THEN [kind |-> "Err", err |-> "No free hooks", index |-> 0]
        ELSE [kind |-> "Ok", err |-> "", index |-> index[1]]

next_free_hook_index(locs, lo, uo) ==
    LET inUnit(l) == FirstSome([j \in 1..Len(uo[l]) |-> position(locs[l][uo[l][j]].hooks)])
        index == FirstSome([i \in 1..Len(lo) |-> inUnit(lo[i])])
    IN  IF index = None
        THEN [kind |-> "Err", err |-> "No free hooks", index |-> 0]
        ELSE [kind |-> "Ok", err |-> "", index |-> index[1]]

\* Slip: an index past the end of the named hall appends a hook (push)
\* instead of indexing.
add_animal_push(locs, lo, uo, location, unit, animal) ==
    IF has_free_hook(locs, lo, uo)
    THEN LET found == next_free_hook_index(locs, lo, uo)
         IN  IF found.kind = "Err"
             THEN [kind |-> "Err", err |-> found.err, index |-> 0, locs |-> locs]
             ELSE IF location \notin DOMAIN locs
             THEN [kind |-> "Err", err |-> "Could not find to location", index |-> 0, locs |-> locs]
             ELSE IF unit \notin DOMAIN locs[location]
             THEN [kind |-> "Err", err |-> "Could not find unit", index |-> 0, locs |-> locs]
             ELSE IF found.index >= Len(locs[location][unit].hooks)
             THEN [kind |-> "Ok", err |-> "", index |-> Len(locs[location][unit].hooks),
                   locs |-> [locs EXCEPT ![location][unit].hooks = Append(@, Some(animal))]]
             ELSE [kind |-> "Ok", err |-> "", index |-> found.index,
                   locs |-> [locs EXCEPT ![location][unit].hooks[found.index + 1] = Some(animal)]]
    ELSE [kind |-> "Err", err |-> "No free hooks", index |-> 0, locs |-> locs]

\* Variant: the free slot is searched in the named hall only.
add_animal_scoped(locs, lo, uo, location, unit, animal) ==
    IF has_free_hook(locs, lo, uo)
    THEN IF location \notin DOMAIN locs
         THEN [kind |-> "Err", err |-> "Could not find to location", index |-> 0, locs |-> locs]
         ELSE IF unit \notin DOMAIN locs[location]
         THEN [kind |-> "Err", err |-> "Could not find unit", index |-> 0, locs |-> locs]
         ELSE LET found == position(locs[location][unit].hooks)
              IN  IF found = None
                  THEN [kind |-> "Err", err |-> "No free hooks", index |-> 0, locs |-> locs]
                  ELSE [kind |-> "Ok", err |-> "", index |-> found[1],
                        locs |-> [locs EXCEPT ![location][unit].hooks[found[1] + 1] = Some(animal)]]
    ELSE [kind |-> "Err", err |-> "No free hooks", index |-> 0, locs |-> locs]

\* Slip: returns the slot number counted from one (index + 1).
add_animal_one_based(locs, lo, uo, location, unit, animal) ==
    IF has_free_hook(locs, lo, uo)
    THEN LET found == next_free_hook_index(locs, lo, uo)
         IN  IF found.kind = "Err"
             THEN [kind |-> "Err", err |-> found.err, index |-> 0, locs |-> locs]
             ELSE IF location \notin DOMAIN locs
             THEN [kind |-> "Err", err |-> "Could not find to location", index |-> 0, locs |-> locs]
             ELSE IF unit \notin DOMAIN locs[location]
             THEN [kind |-> "Err", err |-> "Could not find unit", index |-> 0, locs |-> locs]
             ELSE IF found.index >= Len(locs[location][unit].hooks)
             THEN [kind |-> "Panic", err |-> "index out of bounds", index |-> 0, locs |-> locs]
             ELSE [kind |-> "Ok", err |-> "", index |-> found.index + 1,
                   locs |-> [locs EXCEPT ![location][unit].hooks[found.index + 1] = Some(animal)]]
    ELSE [kind |-> "Err", err |-> "No free hooks", index |-> 0, locs |-> locs]

\* Slip: the named hall is looked up before the capacity check.
add_animal_lookup_first(locs, lo, uo, location, unit, animal) ==
    IF location \notin DOMAIN locs
    THEN [kind |-> "Err", err |-> "Could not find to location", index |-> 0, locs |-> locs]
    ELSE IF unit \notin DOMAIN locs[location]
    THEN [kind |-> "Err", err |-> "Could not find unit", index |-> 0, locs |-> locs]
    ELSE IF has_free_hook(locs, lo, uo)
    THEN LET found == next_free_hook_index(locs, lo, uo)
         IN  IF found.kind = "Err"
             THEN [kind |-> "Err", err |-> found.err, index |-> 0, locs |-> locs]
             ELSE IF found.index >= Len(locs[location][unit].hooks)
             THEN [kind |-> "Panic", err |-> "index out of bounds", index |-> 0, locs |-> locs]
             ELSE [kind |-> "Ok", err |-> "", index |-> found.index,
                   locs |-> [locs EXCEPT ![location][unit].hooks[found.index + 1] = Some(animal)]]
    ELSE [kind |-> "Err", err |-> "No free hooks", index |-> 0, locs |-> locs]

\* Slip: a missing unit is skipped (if let Some(hall) = ...) and the index
\* is returned all the same.
add_animal_skips_missing_unit(locs, lo, uo, location, unit, animal) ==
    IF has_free_hook(locs, lo, uo)
    THEN LET found == next_free_hook_index(locs, lo, uo)
         IN  IF found.kind = "Err"
             THEN [kind |-> "Err", err |-> found.err, index |-> 0, locs |-> locs]
             ELSE IF location \notin DOMAIN locs
             THEN [kind |-> "Err", err |-> "Could not find to location", index |-> 0, locs |-> locs]
             ELSE IF unit \notin DOMAIN locs[location]
             THEN [kind |-> "Ok", err |-> "", index |-> found.index, locs |-> locs]
             ELSE IF found.index >= Len(locs[location][unit].hooks)
             THEN [kind |-> "Panic", err |-> "index out of bounds", index |-> 0, locs |-> locs]
             ELSE [kind |-> "Ok", err |-> "", index |-> found.index,
                   locs |-> [locs EXCEPT ![location][unit].hooks[found.index + 1] = Some(animal)]]
    ELSE [kind |-> "Err", err |-> "No free hooks", index |-> 0, locs |-> locs]

add_animal(locs, lo, uo, location, unit, animal) ==
    IF has_free_hook(locs, lo, uo)
    THEN LET found == next_free_hook_index(locs, lo, uo)
         IN  IF found.kind = "Err"
             THEN [kind |-> "Err", err |-> found.err, index |-> 0, locs |-> locs]
             ELSE IF location \notin DOMAIN locs
             THEN [kind |-> "Err", err |-> "Could not find to location", index |-> 0, locs |-> locs]
             ELSE IF unit \notin DOMAIN locs[location]
             THEN [kind |-> "Err", err |-> "Could not find unit", index |-> 0, locs |-> locs]
             ELSE IF found.index >= Len(locs[location][unit].hooks)
             THEN \* hooks[index] out of bounds: the index panics
                  [kind |-> "Panic", err |-> "index out of bounds", index |-> 0, locs |-> locs]
             ELSE [kind |-> "Ok", err |-> "", index |-> found.index,
                   locs |-> [locs EXCEPT ![location][unit].hooks[found.index + 1] = Some(animal)]]
    ELSE [kind |-> "Err", err |-> "No free hooks", index |-> 0, locs |-> locs]

\* Slip: the index is taken as a slot number counted from one.
get_animal_one_based(locs, location, unit_name, index) ==
    LET unit == IF location \in DOMAIN locs THEN Some(locs[location]) ELSE None
        hall == IF unit # None /\ unit_name \in DOMAIN unit[1]
                THEN Some(unit[1][unit_name]) ELSE None
        animal == IF hall # None /\ index >= 1 /\ index - 1 < Len(hall[1].hooks)
                  THEN cloned(hall[1].hooks[index]) ELSE None
    IN  IF animal = None
        THEN [kind |-> "Err", err |-> "Animal not found", animal |-> None]
        ELSE [kind |-> "Ok", err |-> "", animal |-> animal]

get_animal(locs, location, unit_name, index) ==
    LET unit == IF location \in DOMAIN locs THEN Some(locs[location]) ELSE None
        hall == IF unit # None /\ unit_name \in DOMAIN unit[1]
                THEN Some(unit[1][unit_name]) ELSE None
        animal == IF hall # None /\ index < Len(hall[1].hooks)
                  THEN cloned(hall[1].hooks[index + 1]) ELSE None
    IN  IF animal = None
        THEN [kind |-> "Err", err |-> "Animal not found", animal |-> None]
        ELSE [kind |-> "Ok", err |-> "", animal |-> animal]

\* Slip: a further flatten() over the hooks yields the occupied slots only.
iter_hooks_flatten(locs, lo, uo) ==
    LET full(hooks) == Flatten([k \in 1..Len(hooks) |->
                           IF hooks[k] = None THEN << >> ELSE << hooks[k] >>])
        ofUnit(l) == Flatten([j \in 1..Len(uo[l]) |-> full(locs[l][uo[l][j]].hooks)])
    IN  Flatten([i \in 1..Len(lo) |-> ofUnit(lo[i])])

iter_hooks(locs, lo, uo) ==
    LET ofUnit(l) == Flatten([j \in 1..Len(uo[l]) |-> locs[l][uo[l][j]].hooks])
    IN  Flatten([i \in 1..Len(lo) |-> ofUnit(lo[i])])

\* Every slot of the registry as (location, unit, position in hooks).
Slots(locs) ==
    UNION { UNION { { << l, u, k >> : k \in 1..Len(locs[l][u].hooks) } : u \in DOMAIN locs[l] } :
            l \in DOMAIN locs }

\* ---- the caller ------------------------------------------------------------
\* The record of the latest call: its arguments and what it returned.
NoCall ==
    [op |-> "new", location |-> "", unit |-> "", index |-> 0, animal |-> None,
     kind |-> "Ok", err |-> "", ok_index |-> 0, ok_animal |-> None,
     ok_bool |-> FALSE, ok_hooks |-> << >>]

Running == last.kind # "Panic"

Init ==
    /\ locations = Locations_new
    /\ locOrder = << >>
    /\ unitOrder = [l \in {} |-> << >>]
    /\ last = NoCall

AddLocation ==
    \E name \in LocationNames :
        /\ Running
        /\ locations' = add_location(locations, name)
        /\ locOrder' \in InsertOrders(locOrder, DOMAIN locations, name)
        /\ unitOrder' = insert(unitOrder, name, << >>)
        /\ last' = [NoCall EXCEPT !.op = "add_location", !.location = name]

AddUnit ==
    \E location \in LocationNames, name \in UnitNames, capacity \in Capacities :
        LET r == add_unit(locations, location, name, capacity)
        IN  /\ Running
            /\ locations' = r.locs
            /\ Cardinality(Slots(r.locs)) <= MaxSlots
            /\ locOrder' = locOrder
            /\ IF r.kind = "Ok"
               THEN \E o \in InsertOrders(unitOrder[location], DOMAIN locations[location], name) :
                        unitOrder' = [unitOrder EXCEPT ![location] = o]
               ELSE unitOrder' = unitOrder
            /\ last' = [NoCall EXCEPT !.op = "add_unit", !.location = location,
                            !.unit = name, !.index = capacity,
                            !.kind = r.kind, !.err = r.err]

AddAnimal ==
    \E location \in LocationNames, unit \in UnitNames, animal \in Animals :
        LET r == add_animal(locations, locOrder, unitOrder, location, unit, animal)
        IN  /\ Running
            /\ locations' = r.locs
            /\ UNCHANGED << locOrder, unitOrder >>
            /\ last' = [NoCall EXCEPT !.op = "add_animal", !.location = location,
                            !.unit = unit, !.animal = Some(animal),
                            !.kind = r.kind, !.err = r.err, !.ok_index = r.index]

GetAnimal ==
    \E location \in LocationNames, unit_name \in UnitNames, index \in Indices :
        LET r == get_animal(locations, location, unit_name, index)
        IN  /\ Running
            /\ UNCHANGED << locations, locOrder, unitOrder >>
            /\ last' = [NoCall EXCEPT !.op = "get_animal", !.location = location,
                            !.unit = unit_name, !.index = index,
                            !.kind = r.kind, !.err = r.err, !.ok_animal = r.animal]

HasFreeHook ==
    /\ Running
    /\ UNCHANGED << locations, locOrder, unitOrder >>
    /\ last' = [NoCall EXCEPT !.op = "has_free_hook",
                    !.ok_bool = has_free_hook(locations, locOrder, unitOrder)]

IterHooks ==
    /\ Running
    /\ UNCHANGED << locations, locOrder, unitOrder >>
    /\ last' = [NoCall EXCEPT !.op = "iter_hooks",
                    !.ok_hooks = iter_hooks(locations, locOrder, unitOrder)]

Next ==
    \/ AddLocation
    \/ AddUnit
    \/ AddAnimal
    \/ GetAnimal
    \/ HasFreeHook
    \/ IterHooks

Spec == Init /\ [][Next]_vars

\* ---- vocabulary of the properties ---------------------------------------
Occupied(locs) == { s \in Slots(locs) : locs[s[1]][s[2]].hooks[s[3]] # None }

\* The halls in scan order, as (location, unit) pairs.
HallScan(lo, uo) ==
    Flatten([i \in 1..Len(lo) |-> [j \in 1..Len(uo[lo[i]]) |-> << lo[i], uo[lo[i]][j] >>]])

\* The first empty slot in scan order as (location, unit, index), if any.
FirstFreeSlot(locs, lo, uo) ==
    LET scan == HallScan(lo, uo)
    IN  FirstSome([h \in 1..Len(scan) |->
            LET p == position(locs[scan[h][1]][scan[h][2]].hooks)
            IN  IF p = None THEN None ELSE Some(<< scan[h][1], scan[h][2], p[1] >>)])

NotFoundErrors == {"Location not found", "Could not find to location",
                   "Could not find unit", "Animal not found"}
NoCapacityError == "No free hooks"

\* ---- C1 -------------------------------------------------------------------
\* C1: every add_animal call ends by returning a slot index or an error
\* value; it never aborts the process.
C1_AddAnimalNeverAborts ==
    last.op = "add_animal" => last.kind \in {"Ok", "Err"}

\* ---- C2 -------------------------------------------------------------------
\* C2: on every successful add_animal the (location, unit, index) written is
\* exactly the first empty slot of the global scan order before the call.
C2_WritesTheSlotFound ==
    [][ (last'.op = "add_animal" /\ last'.kind = "Ok")
          => FirstFreeSlot(locations, locOrder, unitOrder)
                = Some(<< last'.location, last'.unit, last'.ok_index >>) ]_vars

\* ---- C3 -------------------------------------------------------------------
\* C3: the slot a successful add_animal writes was empty before the call, the
\* number of occupied slots grows by exactly one, and every occupant stored
\* before is still stored afterwards.
C3_NeverOverwrites ==
    [][ (last'.op = "add_animal" /\ last'.kind = "Ok")
          => /\ locations[last'.location][last'.unit].hooks[last'.ok_index + 1] = None
             /\ Cardinality(Occupied(locations')) = Cardinality(Occupied(locations)) + 1
             /\ \A s \in Occupied(locations) :
                    locations'[s[1]][s[2]].hooks[s[3]] = locations[s[1]][s[2]].hooks[s[3]] ]_vars

\* ---- C4 -------------------------------------------------------------------
\* C4: after add_animal(L, U, X) succeeded returning i, get_animal(L, U, i)
\* succeeds and returns a value equal in content to X.
C4_RoundTrip ==
    (last.op = "add_animal" /\ last.kind = "Ok")
        => LET got == get_animal(locations, last.location, last.unit, last.ok_index)
           IN  /\ got.kind = "Ok"
               /\ got.animal = last.animal

\* A successful add_animal into a hall that is not the first of the scan.
C4_Witness ==
    /\ last.op = "add_animal"
    /\ last.kind = "Ok"
    /\ HallScan(locOrder, unitOrder)[1] # << last.location, last.unit >>

\* ---- C5 -------------------------------------------------------------------
\* C5: when no slot of the registry is empty, add_animal fails with the
\* no-capacity error and the registry is the same before and after.
C5_FullRegistryNoCapacity ==
    [][ (last'.op = "add_animal" /\ \A s \in Slots(locations) : s \in Occupied(locations))
          => /\ last'.kind = "Err"
             /\ last'.err = NoCapacityError
             /\ locations' = locations ]_vars

\* add_animal was refused on a registry whose slots are all occupied, naming
\* a location that does not exist.
C5_Witness ==
    /\ last.op = "add_animal"
    /\ last.err = NoCapacityError
    /\ Slots(locations) # {}
    /\ Slots(locations) = Occupied(locations)
    /\ last.location \notin DOMAIN locations

\* ---- C6 -------------------------------------------------------------------
\* C6: add_animal either returns an index and exactly one slot differs from
\* before (it holds the supplied occupant), everything else unchanged, or it
\* returns an error and the registry is unchanged.
C6_AllOrNothing ==
    [][ last'.op = "add_animal"
          => \/ /\ last'.kind = "Ok"
                /\ Slots(locations') = Slots(locations)
                /\ \E s \in Slots(locations) :
                      /\ locations'[s[1]][s[2]].hooks[s[3]] # locations[s[1]][s[2]].hooks[s[3]]
                      /\ locations'[s[1]][s[2]].hooks[s[3]] = last'.animal
                      /\ \A t \in Slots(locations) \ {s} :
                            locations'[t[1]][t[2]].hooks[t[3]] = locations[t[1]][t[2]].hooks[t[3]]
             \/ /\ last'.kind = "Err"
                /\ locations' = locations ]_vars

\* ---- C7 -------------------------------------------------------------------
\* C7: with a free slot somewhere, add_animal naming a location that does not
\* exist, or a unit that does not exist in it, fails with a not-found error
\* and leaves the registry unchanged.
C7_MissingTargetNotFound ==
    [][ ( /\ last'.op = "add_animal"
          /\ Slots(locations) # Occupied(locations)
          /\ \/ last'.location \notin DOMAIN locations
             \/ last'.unit \notin DOMAIN locations[last'.location] )
          => /\ last'.kind = "Err"
             /\ last'.err \in NotFoundErrors
             /\ locations' = locations ]_vars

\* add_animal named a unit missing from an existing location while a slot
\* was free elsewhere.
C7_Witness ==
    /\ last.op = "add_animal"
    /\ last.err = "Could not find unit"
    /\ last.location \in DOMAIN locations
    /\ last.unit \notin DOMAIN locations[last.location]
    /\ Slots(locations) # Occupied(locations)

\* ---- C8 -------------------------------------------------------------------
\* C8: get_animal(L, U, i) fails with not-found when L does not exist, U does
\* not exist in L, i is not below the hall's capacity or slot i is empty; in
\* every other case it returns a copy of the occupant stored at (L, U, i).
C8_GetAnimal ==
    last.op = "get_animal"
        => IF \/ last.location \notin DOMAIN locations
              \/ last.unit \notin DOMAIN locations[last.location]
              \/ last.index >= Len(locations[last.location][last.unit].hooks)
              \/ locations[last.location][last.unit].hooks[last.index + 1] = None
           THEN last.kind = "Err" /\ last.err \in NotFoundErrors
           ELSE /\ last.kind = "Ok"
                /\ last.ok_animal = locations[last.location][last.unit].hooks[last.index + 1]

\* get_animal returned an occupant.
C8_Witness ==
    /\ last.op = "get_animal"
    /\ last.kind = "Ok"
    /\ last.ok_animal = Some(Cow("Daisy"))

\* ---- C9 -------------------------------------------------------------------
\* C9: has_free_hook() is true exactly when the sequence of iter_hooks()
\* contains an empty slot.
C9_HasFreeIffIterYieldsEmpty ==
    LET hooks == iter_hooks(locations, locOrder, unitOrder)
    IN  has_free_hook(locations, locOrder, unitOrder)
            <=> \E k \in 1..Len(hooks) : hooks[k] = None

\* has_free_hook() answered false on a registry that has slots, all occupied.
C9_Witness ==
    /\ last.op = "has_free_hook"
    /\ last.ok_bool = FALSE
    /\ Slots(locations) # {}

\* ---- C10 ------------------------------------------------------------------
\* C10: add_unit on a missing location fails with not-found and changes
\* nothing; on an existing location it succeeds, (location, name) is then a
\* hall of `capacity` empty slots, and every other unit and location is as
\* before.
C10_AddUnit ==
    [][ last'.op = "add_unit"
          => IF last'.location \notin DOMAIN locations
             THEN /\ last'.kind = "Err"
                  /\ last'.err \in NotFoundErrors
                  /\ locations' = locations
             ELSE /\ last'.kind = "Ok"
                  /\ DOMAIN locations' = DOMAIN locations
                  /\ DOMAIN locations'[last'.location]
                        = DOMAIN locations[last'.location] \cup {last'.unit}
                  /\ Len(locations'[last'.location][last'.unit].hooks) = last'.index
                  /\ \A k \in 1..last'.index :
                        locations'[last'.location][last'.unit].hooks[k] = None
                  /\ \A l \in DOMAIN locations :
                        IF l = last'.location
                        THEN \A u \in DOMAIN locations[l] \ {last'.unit} :
                                locations'[l][u] = locations[l][u]
                        ELSE locations'[l] = locations[l] ]_vars

\* add_unit created a non-empty hall next to an occupied one.
C10_Witness ==
    /\ last.op = "add_unit"
    /\ last.kind = "Ok"
    /\ last.index > 0
    /\ Occupied(locations) # {}

\* ---- C11 ------------------------------------------------------------------
\* The units of the registry as (location, unit) pairs.
Units(locs) == UNION { { << l, u >> : u \in DOMAIN locs[l] } : l \in DOMAIN locs }

\* C11 (as claimed): once a unit (L, U) exists it keeps existing with the
\* same number of slots after any later add_location, add_unit or add_animal.
C11_UnitsNeverRemovedOrResized ==
    [][ \A h \in Units(locations) :
            /\ h \in Units(locations')
            /\ Len(locations'[h[1]][h[2]].hooks) = Len(locations[h[1]][h[2]].hooks) ]_vars

\* C11 (amended): a unit (L, U) keeps existing with the same number of slots
\* over every call except add_location(L), which drops every unit of L, and
\* add_unit(L, U, c), which replaces the hall by one of c slots.
C11_UnitsKeptUnlessRenamed ==
    [][ \A h \in Units(locations) :
            \/ last'.op = "add_location" /\ last'.location = h[1]
            \/ last'.op = "add_unit" /\ last'.location = h[1] /\ last'.unit = h[2]
            \/ /\ h \in Units(locations')
               /\ Len(locations'[h[1]][h[2]].hooks) = Len(locations[h[1]][h[2]].hooks) ]_vars

\* add_animal stored an occupant while a second unit exists in the registry.
C11_Witness ==
    /\ last.op = "add_animal"
    /\ last.kind = "Ok"
    /\ Cardinality(Units(locations)) >= 2

\* ---- C12 ------------------------------------------------------------------
\* C12: add_location(name) always succeeds; afterwards `name` maps to an empty
\* Unit-Group, also when it existed before with units and occupants, and
\* every other location is unchanged with all its units and slots.
C12_AddLocationResets ==
    [][ last'.op = "add_location"
          => /\ last'.kind = "Ok"
             /\ DOMAIN locations' = DOMAIN locations \cup {last'.location}
             /\ DOMAIN locations'[last'.location] = {}
             /\ \A l \in DOMAIN locations \ {last'.location} :
                    locations'[l] = locations[l] ]_vars

\* add_location has just left its location empty while another location
\* still holds an occupant.
C12_Witness ==
    /\ last.op = "add_location"
    /\ last.kind = "Ok"
    /\ DOMAIN locations[last.location] = {}
    /\ \E s \in Occupied(locations) : s[1] # last.location

\* ---- C13 ------------------------------------------------------------------
\* The registry holds exactly one location with exactly one unit.
OneHall(locs) == Cardinality(DOMAIN locs) = 1 /\ Cardinality(Units(locs)) = 1

\* C13: in a registry of one location with one unit of capacity N, filled
\* from empty, the add_animal calls naming the unit return 0, 1, ..., N-1 in
\* that order; then has_free_hook() is false and the next add_animal fails
\* with the no-capacity error; get_animal on index k returns the k-th
\* inserted occupant and fails with not-found on an index not yet filled or
\* >= N.  Stated step by step: with c occupants stored they sit at the
\* indices 0..c-1 in insertion order, the next insertion returns c and
\* leaves them in place.
C13_SingleHallFillsInOrder ==
    [][ OneHall(locations)
          => LET h == CHOOSE x \in Units(locations) : TRUE
                 hooks == locations[h[1]][h[2]].hooks
                 N == Len(hooks)
                 c == Cardinality(Occupied(locations))
             IN  /\ \A k \in 1..N : (hooks[k] # None) <=> (k <= c)
                 /\ (c = N) => ~has_free_hook(locations, locOrder, unitOrder)
                 /\ \A i \in Indices :
                       LET got == get_animal(locations, h[1], h[2], i)
                       IN  IF i < c
                           THEN got.kind = "Ok" /\ got.animal = hooks[i + 1]
                           ELSE got.kind = "Err" /\ got.err \in NotFoundErrors
                 /\ (last'.op = "add_animal" /\ last'.location = h[1] /\ last'.unit = h[2])
                       => IF c < N
                          THEN /\ last'.kind = "Ok"
                               /\ last'.ok_index = c
                               /\ locations' = [locations EXCEPT
                                      ![h[1]][h[2]].hooks[c + 1] = last'.animal]
                          ELSE /\ last'.kind = "Err"
                               /\ last'.err = NoCapacityError
                               /\ locations' = locations ]_vars

\* The second insertion into a two-slot hall returned index 1: Bessie sits
\* at index 0, Daisy at index 1 and the hall is full.
C13_Witness ==
    /\ OneHall(locations)
    /\ last.op = "add_animal"
    /\ last.kind = "Ok"
    /\ last.ok_index = 1
    /\ locations[last.location][last.unit].hooks = << Some(Cow("Bessie")), Some(Cow("Daisy")) >>
    /\ ~has_free_hook(locations, locOrder, unitOrder)

\* ---- C14 ------------------------------------------------------------------
\* C14: has_free_hook, get_animal and iter_hooks leave the registry unchanged
\* whether they succeed or fail; iter_hooks yields exactly one element per
\* slot of the registry (as many as the sum of the hall capacities, as many
\* empty ones as there are empty slots), and running it again on the same
\* registry yields the same sequence.
C14_ReadsDoNotMutate ==
    [][ /\ last'.op \in {"has_free_hook", "get_animal", "iter_hooks"}
            => /\ locations' = locations
               /\ locOrder' = locOrder
               /\ unitOrder' = unitOrder
        /\ last'.op = "iter_hooks"
            => /\ Len(last'.ok_hooks) = Cardinality(Slots(locations))
               /\ Cardinality({ k \in 1..Len(last'.ok_hooks) : last'.ok_hooks[k] # None })
                     = Cardinality(Occupied(locations))
               /\ last'.ok_hooks = iter_hooks(locations', locOrder', unitOrder') ]_vars

\* iter_hooks walked two halls, one with an occupant and one with an empty
\* slot.
C14_Witness ==
    /\ last.op = "iter_hooks"
    /\ Len(last.ok_hooks) = 2
    /\ Cardinality(Units(locations)) = 2
    /\ \E k \in 1..2 : last.ok_hooks[k] = None
    /\ \E k \in 1..2 : last.ok_hooks[k] # None

\* ---- a registry of one location with two halls ---------------------------
\* The registry after add_location("Farm"), add_unit("Farm", "Barn", c1) and
\* add_unit("Farm", "Shed", c2), in either enumeration order of the units;
\* from there on the caller inserts and reads.
InitHalls ==
    \E c1 \in Capacities, c2 \in Capacities, o \in Perms({"Barn", "Shed"}) :
        /\ locations = add_unit(add_unit(add_location(Locations_new, "Farm"),
                                        "Farm", "Barn", c1).locs,
                               "Farm", "Shed", c2).locs
        /\ locOrder = << "Farm" >>
        /\ unitOrder = [l \in {"Farm"} |-> o]
        /\ last = NoCall

NextHalls ==
    \/ AddAnimal
    \/ GetAnimal
    \/ HasFreeHook
    \/ IterHooks

SpecHalls == InitHalls /\ [][NextHalls]_vars

\* ---- C15 ------------------------------------------------------------------
\* C15: the index a successful add_animal returns and writes at depends on
\* the registry alone: it is the position of the first empty slot in the
\* first hall of the scan that has one, while the hall written is the
\* caller-named hall; two calls on the same registry naming different units
\* that both succeed return the same index.
C15_IndexIgnoresNamedHall ==
    [][ /\ \A h1 \in Units(locations), h2 \in Units(locations), a \in Animals :
              LET r1 == add_animal(locations, locOrder, unitOrder, h1[1], h1[2], a)
                  r2 == add_animal(locations, locOrder, unitOrder, h2[1], h2[2], a)
              IN  (r1.kind = "Ok" /\ r2.kind = "Ok") => r1.index = r2.index
        /\ (last'.op = "add_animal" /\ last'.kind = "Ok")
              => LET found == FirstFreeSlot(locations, locOrder, unitOrder)
                 IN  /\ found # None
                     /\ last'.ok_index = found[1][3]
                     /\ locations' = [locations EXCEPT
                            ![last'.location][last'.unit].hooks[last'.ok_index + 1]
                                = last'.animal] ]_vars

\* add_animal returned index 1, found in the other hall, and stored the
\* occupant at index 1 of the named hall, whose slot 0 is still empty.
C15_Witness ==
    /\ last.op = "add_animal"
    /\ last.kind = "Ok"
    /\ last.ok_index = 1
    /\ locations[last.location][last.unit].hooks[1] = None
    /\ locations[last.location][last.unit].hooks[2] = last.animal

\* ---- C16 ------------------------------------------------------------------
\* C16: has_free_hook and next_free_hook_index agree on every reachable
\* registry: next_free_hook_index returns an index exactly when
\* has_free_hook() is true, so add_animal never propagates its error.
C16_FreeChecksAgree ==
    has_free_hook(locations, locOrder, unitOrder)
        <=> next_free_hook_index(locations, locOrder, unitOrder).kind = "Ok"

\* A registry of two locations whose first location in the enumeration has
\* no empty slot while the second has one.
C16_Witness ==
    /\ Len(locOrder) = 2
    /\ \A s \in Slots(locations) : s[1] = locOrder[1] => s \in Occupied(locations)
    /\ \E s \in Slots(locations) : s[1] = locOrder[2] /\ s \notin Occupied(locations)
    /\ next_free_hook_index(locations, locOrder, unitOrder).kind = "Ok"

====
